---- MODULE Spec2Model ----
(***************************************************************************)
(* Mind Flow: the turn orchestrator of src/brain.py (supervisor -> persona *)
(* node -> END, the architect node running the journal tool) together with *)
(* its two callers, the Streamlit input handler of src/app.py (with the    *)
(* keyword safety gate) and the terminal loop of src/test.py.              *)
(*                                                                         *)
(* Texts are sequences of characters (one-character strings; a CJK         *)
(* character is written by its code point, "U60F3"), so that lower(),      *)
(* upper(), strip() and the substring test `in` are computed as Python     *)
(* computes them.                                                          *)
(*                                                                         *)
(* Spec is a session of either caller, turn after turn.  PairSpec runs the *)
(* graph twice on one input, the provider being a deterministic stub.      *)
(***************************************************************************)
EXTENDS Integers, Sequences, FiniteSets, TLC

(* ------------------------------ bounds -------------------------------- *)

\* turns submitted in one session
MaxTurns == 2

\* tool calls the provider puts in its replies in one session
MaxCalls == 2

(* ------------------------- Python str operations ---------------------- *)

ASCII_UPPERCASE ==
  <<"A", "B", "C", "D", "E", "F", "G", "H", "I", "J", "K", "L", "M",
    "N", "O", "P", "Q", "R", "S", "T", "U", "V", "W", "X", "Y", "Z">>

ASCII_LOWERCASE ==
  <<"a", "b", "c", "d", "e", "f", "g", "h", "i", "j", "k", "l", "m",
    "n", "o", "p", "q", "r", "s", "t", "u", "v", "w", "x", "y", "z">>

\* str.lower(), character by character: a cased letter maps to its lower
\* case form, every other character (space, hyphen, CJK) to itself
lower(s) ==
  [i \in 1..Len(s) |->
     IF \E k \in 1..26 : ASCII_UPPERCASE[k] = s[i]
       THEN ASCII_LOWERCASE[CHOOSE k \in 1..26 : ASCII_UPPERCASE[k] = s[i]]
       ELSE s[i]]

\* str.upper()
upper(s) ==
  [i \in 1..Len(s) |->
     IF \E k \in 1..26 : ASCII_LOWERCASE[k] = s[i]
       THEN ASCII_UPPERCASE[CHOOSE k \in 1..26 : ASCII_LOWERCASE[k] = s[i]]
       ELSE s[i]]

\* Python `sub in s` on str: sub occurs in s as a contiguous run
Contains(s, sub) ==
  \E i \in 0..(Len(s) - Len(sub)) : SubSeq(s, i + 1, i + Len(sub)) = sub

\* str.strip(): drop leading and trailing whitespace
strip(s) ==
  LET nonblank == {i \in 1..Len(s) : s[i] # " "}
  IN  IF nonblank = {} THEN <<>>
      ELSE SubSeq(s, CHOOSE i \in nonblank : \A j \in nonblank : i <= j,
                     CHOOSE i \in nonblank : \A j \in nonblank : j <= i)

(* --------------------------- src/app.py: gate ------------------------- *)

SAFETY_KEYWORDS ==
  << <<"s", "u", "i", "c", "i", "d", "e">>,
     <<"k", "i", "l", "l", " ", "m", "y", "s", "e", "l", "f">>,
     <<"w", "a", "n", "t", " ", "t", "o", " ", "d", "i", "e">>,
     <<"w", "a", "n", "t", " ", "t", "o", " ", "e", "n", "d", " ", "i", "t", " ", "a", "l", "l">>,
     <<"e", "n", "d", " ", "m", "y", " ", "l", "i", "f", "e">>,
     <<"s", "e", "l", "f", "-", "h", "a", "r", "m">>,
     <<"s", "e", "l", "f", " ", "h", "a", "r", "m">>,
     <<"U81EA", "U6BBA">>,
     <<"U60F3", "U6B7B">>,
     <<"U4E0D", "U60F3", "U6D3B", "U4E86">>,
     <<"U6D3B", "U4E0D", "U4E0B", "U53BB">>,
     <<"U60F3", "U7D50", "U675F", "U4E00", "U5207">>,
     <<"U50B7", "U5BB3", "U81EA", "U5DF1">> >>

\* the fixed template; its text is opaque to every check, one token
SAFETY_MESSAGE == <<"SAFETY_MESSAGE">>

\* mutant: the prompt is compared without case folding
safety_check_case_sensitive(prompt) ==
  \E k \in 1..Len(SAFETY_KEYWORDS) : Contains(prompt, SAFETY_KEYWORDS[k])

\* lowered = prompt.lower(); any(keyword in lowered for keyword in SAFETY_KEYWORDS)
safety_check(prompt) ==
  LET lowered == lower(prompt)
  IN  \E k \in 1..Len(SAFETY_KEYWORDS) : Contains(lowered, SAFETY_KEYWORDS[k])

(* ------------------------------ messages ------------------------------ *)

\* langchain_core.messages, with the fields the program reads.  A message
\* class without tool_calls / tool_call_id carries <<>> / 0 there and
\* hasattr() is modelled by the type test of has_tool_calls.
HumanMessage(content) ==
  [type |-> "human", content |-> content, tool_calls |-> <<>>, tool_call_id |-> 0]

SystemMessage(content) ==
  [type |-> "system", content |-> content, tool_calls |-> <<>>, tool_call_id |-> 0]

AIMessage(content, tool_calls) ==
  [type |-> "ai", content |-> content, tool_calls |-> tool_calls, tool_call_id |-> 0]

ToolMessage(content, tool_call_id) ==
  [type |-> "tool", content |-> content, tool_calls |-> <<>>,
   tool_call_id |-> tool_call_id]

\* hasattr(response, 'tool_calls') and response.tool_calls
has_tool_calls(response) ==
  response.type = "ai" /\ response.tool_calls # <<>>

(* ------------------------- src/brain.py: tool ------------------------- *)

\* mutant: the new row is put in front of the rows already there
update_journal_prepend(db, now, mood, energy, note) ==
  <<[Timestamp |-> now, Mood |-> mood, Energy |-> energy, Note |-> note]>> \o db

\* update_journal of src/app.py: one row concatenated at the end of
\* st.session_state.journal_db; now is datetime.now()
update_journal(db, now, mood, energy, note) ==
  Append(db, [Timestamp |-> now, Mood |-> mood, Energy |-> energy, Note |-> note])

\* the return value of save_journal_entry, an f-string of mood and energy
confirmation(mood, energy) ==
  <<"recorded: Mood=", mood, ", Energy=", ToString(energy)>>

\* mutant: only the first tool call of the reply is executed
run_tool_calls_first_only(calls, i, now, acc) ==
  IF i > Len(calls) \/ i > 1 THEN acc
  ELSE LET a == calls[i].args
       IN  [db |-> update_journal(acc.db, now, a.mood, a.energy, a.note),
            tool_messages |->
              Append(acc.tool_messages,
                     ToolMessage(confirmation(a.mood, a.energy), calls[i].id))]

\* mutant: the confirmation string carries the time of the append
RECURSIVE run_tool_calls_stamped(_, _, _, _)
run_tool_calls_stamped(calls, i, now, acc) ==
  IF i > Len(calls) THEN acc
  ELSE LET a == calls[i].args
       IN  run_tool_calls_stamped(calls, i + 1, now,
             [db |-> update_journal(acc.db, now, a.mood, a.energy, a.note),
              tool_messages |->
                Append(acc.tool_messages,
                       ToolMessage(confirmation(a.mood, a.energy) \o <<ToString(now)>>,
                                   calls[i].id))])

\* the tool_call loop of architect_node over calls[i..]: every call, whatever
\* its name, is handed to save_tool.invoke(tool_call["args"]), which runs
\* update_callback; acc = [db, tool_messages]
RECURSIVE run_tool_calls(_, _, _, _)
run_tool_calls(calls, i, now, acc) ==
  IF i > Len(calls) THEN acc
  ELSE LET a == calls[i].args
       IN  run_tool_calls(calls, i + 1, now,
             [db |-> update_journal(acc.db, now, a.mood, a.energy, a.note),
              tool_messages |->
                Append(acc.tool_messages,
                       ToolMessage(confirmation(a.mood, a.energy), calls[i].id))])

(* ----------------------- src/brain.py: supervisor --------------------- *)

STRATEGIST == <<"S", "T", "R", "A", "T", "E", "G", "I", "S", "T">>

HEALER == <<"H", "E", "A", "L", "E", "R">>

STARTER == <<"S", "T", "A", "R", "T", "E", "R">>

ARCHITECT == <<"A", "R", "C", "H", "I", "T", "E", "C", "T">>

\* mutant: a reply naming no label falls back to the first persona
supervisor_decision_fallback_first(content) ==
  LET response == upper(content)
  IN  IF Contains(response, STRATEGIST) THEN "strategist"
      ELSE IF Contains(response, HEALER) THEN "healer"
      ELSE IF Contains(response, STARTER) THEN "starter"
      ELSE IF Contains(response, ARCHITECT) THEN "architect"
      ELSE "strategist"

\* mutant: HEALER is tested before STRATEGIST
supervisor_decision_healer_first(content) ==
  LET response == upper(content)
  IN  IF Contains(response, HEALER) THEN "healer"
      ELSE IF Contains(response, STRATEGIST) THEN "strategist"
      ELSE IF Contains(response, STARTER) THEN "starter"
      ELSE IF Contains(response, ARCHITECT) THEN "architect"
      ELSE "healer"

\* the if / elif chain of supervisor_node on response = reply.content.upper()
supervisor_decision(content) ==
  LET response == upper(content)
  IN  IF Contains(response, STRATEGIST) THEN "strategist"
      ELSE IF Contains(response, HEALER) THEN "healer"
      ELSE IF Contains(response, STARTER) THEN "starter"
      ELSE IF Contains(response, ARCHITECT) THEN "architect"
      ELSE "healer"

\* the mapping of add_conditional_edges: next_step -> node
conditional_edge(next_step) ==
  CASE next_step = "strategist" -> "strategist"
    [] next_step = "healer" -> "healer"
    [] next_step = "starter" -> "starter"
    [] next_step = "architect" -> "architect"

\* the five instruction texts, each standing for its whole text
STRATEGIST_PROMPT == <<"STRATEGIST_PROMPT">>

HEALER_PROMPT == <<"HEALER_PROMPT">>

STARTER_PROMPT == <<"STARTER_PROMPT">>

ARCHITECT_PROMPT == <<"ARCHITECT_PROMPT">>

SUPERVISOR_PROMPT == <<"SUPERVISOR_PROMPT">>

\* mutant: the instruction is put behind the history
llm_input_system_last(PROMPT, st) ==
  st.messages \o <<SystemMessage(PROMPT)>>

\* messages = [SystemMessage(content=PROMPT)] + state["messages"]
llm_input(PROMPT, st) ==
  <<SystemMessage(PROMPT)>> \o st.messages

\* one llm.invoke: what was passed, whether tools were bound, what came back
llm_call(input, tools, reply) ==
  [input |-> input, tools |-> tools, reply |-> reply]

(* ------------------------- Completion Provider ------------------------ *)
\* The provider is external: every reply below is one it can return.

Fragments ==
  { <<"S", "t", "r", "a", "t", "e", "g", "i", "s", "t">>,
    <<"h", "e", "a", "l", "e", "r">>,
    <<"S", "T", "A", "R", "T", "E", "R">>,
    <<"a", "R", "c", "H", "i", "T", "e", "C", "t">>,
    <<"o", "k", " ">> }

\* texts the provider may answer the classification instruction with: two
\* fragments in either order ("ok ok ", "ok healer", "aRcHiTeCtok ",
\* "STARTERStrategist", "StrategistSTARTER", ...)
RouterReplies ==
  {a \o b : a \in Fragments, b \in Fragments}

CallKinds ==
  << [name |-> "save_journal_entry",
      args |-> [mood |-> "Stuck", energy |-> 4, note |-> "skipped workout"]],
     [name |-> "save_journal_entry",
      args |-> [mood |-> "Flowing", energy |-> 11, note |-> "ran"]],
     [name |-> "set_full_plan",
      args |-> [mood |-> "Stuck", energy |-> 4, note |-> "skipped workout"]] >>

\* n calls of successive kinds, starting with kind s and going round
KindRun(s, n) ==
  [i \in 1..n |-> CallKinds[((s + i - 2) % Len(CallKinds)) + 1]]

\* call ids are the provider's, distinct within one reply: ascending or
\* descending along the calls
CallIds(n) ==
  {[i \in 1..n |-> i], [i \in 1..n |-> n + 1 - i]}

\* the tool call lists of at most max calls: successive kinds from any
\* first kind, ids in either order
ToolCallLists(max) ==
  UNION {
    {[i \in 1..n |-> [id |-> ids[i], name |-> KindRun(s, n)[i].name,
                      args |-> KindRun(s, n)[i].args]] :
       s \in 1..Len(CallKinds), ids \in CallIds(n)} : n \in 0..max}

REPLY_TEXT == <<"reply">>

\* replies to a persona call; the provider (a stub above all) may attach
\* tool calls whether or not tools were bound
PersonaRepliesUpTo(max) ==
  {AIMessage(REPLY_TEXT, tcs) : tcs \in ToolCallLists(max)}

(* ------------------------------- inputs ------------------------------- *)

\* what the user types into st.chat_input: "I did it", "Kill Myself", and
\* U+6211 U+60F3 U+6B7B
ChatInputs ==
  { <<"I", " ", "d", "i", "d", " ", "i", "t">>,
    <<"K", "i", "l", "l", " ", "M", "y", "s", "e", "l", "f">>,
    <<"U6211", "U60F3", "U6B7B">> }

\* what the user types at the terminal prompt: " Kill Myself ", " Quit" and
\* a blank line
TerminalInputs ==
  { <<" ", "K", "i", "l", "l", " ", "M", "y", "s", "e", "l", "f", " ">>,
    <<" ", "Q", "u", "i", "t">>,
    <<" ", " ">> }

\* ['quit', 'exit', U+9000 U+51FA] of the terminal loop
QUIT_WORDS ==
  { <<"q", "u", "i", "t">>, <<"e", "x", "i", "t">>, <<"U9000", "U51FA">> }

GREETING == AIMessage(<<"greeting">>, <<>>)

(* -------------------------------- state ------------------------------- *)

VARIABLES
  caller,        \* "app" (src/app.py) or "terminal" (src/test.py)
  messages,      \* st.session_state.messages / messages: the session history
  journal_db,    \* st.session_state.journal_db
  pc,            \* "idle", the graph node about to run, "END", or "exited"
  state,         \* the graph's AgentState: [messages, next_step]
  response,      \* supervisor_node's local: the provider's reply text
  turns,         \* inputs handled so far
  calls_issued,  \* tool calls the provider has put in its replies so far
  unbound_calls, \* the provider has put tool calls in a reply to a call made
                 \* without tools bound
  prompt,        \* the text of the turn in progress (or of the last one)
  pre_messages,  \* the session history when the turn was submitted
  pre_journal,   \* the journal when the turn was submitted
  trace,         \* what ran in this turn, in order: "safety", "router",
                 \* the persona node, "tool" per executed tool call
  outcome,       \* how the turn ended
  toasts,        \* notifications the caller surfaced in this turn
  llm_calls,     \* the provider calls of the run in progress, in order
  earlier_runs   \* the runs of the graph already made on this turn's input

vars ==
  <<caller, messages, journal_db, pc, state, response, turns, calls_issued,
    unbound_calls, prompt, pre_messages, pre_journal, trace, outcome, toasts,
    llm_calls, earlier_runs>>

NO_STATE == [messages |-> <<>>, next_step |-> ""]

\* app.py 100-101 and 145-173, test.py 41-47: an empty journal and a
\* history holding the greeting
Init ==
  /\ caller \in {"app", "terminal"}
  /\ messages = <<GREETING>>
  /\ journal_db = <<>>
  /\ pc = "idle"
  /\ state = NO_STATE
  /\ response = <<>>
  /\ turns = 0
  /\ calls_issued = 0
  /\ unbound_calls = FALSE
  /\ prompt = <<>>
  /\ pre_messages = <<>>
  /\ pre_journal = <<>>
  /\ trace = <<>>
  /\ outcome = "none"
  /\ toasts = <<>>
  /\ llm_calls = <<>>
  /\ earlier_runs = <<>>

\* the bookkeeping every submitted turn starts with
BeginTurn(text) ==
  /\ turns' = turns + 1
  /\ prompt' = text
  /\ pre_messages' = messages
  /\ pre_journal' = journal_db
  /\ toasts' = <<>>
  /\ response' = <<>>
  /\ llm_calls' = <<>>
  /\ earlier_runs' = <<>>

(* --------------------------- src/app.py: turn ------------------------- *)

\* app.py 192-204: the prompt is appended, the gate matches, the fixed
\* message is appended and the brain is not invoked
AppSubmitBlocked(text) ==
  /\ caller = "app" /\ pc = "idle" /\ turns < MaxTurns
  /\ safety_check(text)
  /\ BeginTurn(text)
  /\ messages' = messages \o <<HumanMessage(text), AIMessage(SAFETY_MESSAGE, <<>>)>>
  /\ trace' = <<"safety">>
  /\ outcome' = "blocked"
  /\ UNCHANGED <<caller, calls_issued, unbound_calls, journal_db, pc, state>>

\* app.py 192-199, 205-208: the prompt is appended, the gate does not
\* match, mind_flow_app.invoke({"messages": messages}) enters the graph at
\* its entry point
AppSubmitClean(text) ==
  /\ caller = "app" /\ pc = "idle" /\ turns < MaxTurns
  /\ ~safety_check(text)
  /\ BeginTurn(text)
  /\ messages' = Append(messages, HumanMessage(text))
  /\ state' = [messages |-> messages', next_step |-> ""]
  /\ trace' = <<"safety">>
  /\ outcome' = "running"
  /\ pc' = "supervisor"
  /\ UNCHANGED <<caller, calls_issued, unbound_calls, journal_db>>

(* -------------------------- src/test.py: turn ------------------------- *)

\* test.py 52-55: a blank line is skipped
TerminalBlank(text) ==
  /\ caller = "terminal" /\ pc = "idle" /\ turns < MaxTurns
  /\ strip(text) = <<>>
  /\ outcome' = "skipped"
  /\ turns' = turns + 1
  /\ UNCHANGED <<caller, calls_issued, unbound_calls, messages, journal_db, pc, state, response, prompt,
                 pre_messages, pre_journal, trace, toasts, llm_calls, earlier_runs>>

\* test.py 57-59: quit / exit leaves the loop
TerminalQuit(text) ==
  /\ caller = "terminal" /\ pc = "idle" /\ turns < MaxTurns
  /\ lower(strip(text)) \in QUIT_WORDS
  /\ pc' = "exited"
  /\ outcome' = "exit"
  /\ turns' = turns + 1
  /\ UNCHANGED <<caller, calls_issued, unbound_calls, messages, journal_db, state, response, prompt,
                 pre_messages, pre_journal, trace, toasts, llm_calls, earlier_runs>>

\* test.py 61-67: the stripped input is appended and app.invoke enters the
\* graph; nothing inspects the text first
TerminalSubmit(text) ==
  /\ caller = "terminal" /\ pc = "idle" /\ turns < MaxTurns
  /\ strip(text) # <<>>
  /\ lower(strip(text)) \notin QUIT_WORDS
  /\ BeginTurn(strip(text))
  /\ messages' = Append(messages, HumanMessage(strip(text)))
  /\ state' = [messages |-> messages', next_step |-> ""]
  /\ trace' = <<>>
  /\ outcome' = "running"
  /\ pc' = "supervisor"
  /\ UNCHANGED <<caller, calls_issued, unbound_calls, journal_db>>

(* --------------------------- exceptions ------------------------------- *)

\* mutant: the terminal loop keeps the user's message after an exception
Raise_without_pop(kind) ==
  /\ messages' = messages
  /\ outcome' = kind
  /\ pc' = "idle"
  /\ state' = NO_STATE
  /\ response' = <<>>

\* mutant: every caller removes the last message after an exception
Raise_always_pop(kind) ==
  /\ messages' = SubSeq(messages, 1, Len(messages) - 1)
  /\ outcome' = kind
  /\ pc' = "idle"
  /\ state' = NO_STATE
  /\ response' = <<>>

\* an exception leaving app.invoke.  app.py has no handler: the script run
\* ends and st.session_state keeps the appended prompt.  test.py 80-83
\* catches it and pops the last message.
Raise(kind) ==
  /\ messages' = IF caller = "terminal"
                   THEN SubSeq(messages, 1, Len(messages) - 1)
                   ELSE messages
  /\ outcome' = kind
  /\ pc' = "idle"
  /\ state' = NO_STATE
  /\ response' = <<>>

(* ----------------------- src/brain.py: the graph ---------------------- *)

PersonaNodes == {"strategist", "healer", "starter", "architect"}

\* the instruction each persona node prepends
NODE_PROMPT ==
  [strategist |-> STRATEGIST_PROMPT, healer |-> HEALER_PROMPT,
   starter |-> STARTER_PROMPT, architect |-> ARCHITECT_PROMPT]

\* the provider calls of the earlier runs on this input
EarlierCalls ==
  UNION {{earlier_runs[k].calls[i] : i \in 1..Len(earlier_runs[k].calls)} :
           k \in 1..Len(earlier_runs)}

\* what the provider answered in an earlier run to the same call
StubReplies(input, tools) ==
  {c.reply : c \in {d \in EarlierCalls : d.input = input /\ d.tools = tools}}

\* the provider is a deterministic stub across the runs on one input: to a
\* call it has answered it gives the same answer again
StubGives(input, tools, reply) ==
  \A r \in StubReplies(input, tools) : r = reply

\* datetime.now(): later in every turn and in every run
datetime_now == turns + Len(earlier_runs)

\* create_mind_flow_brain: save_tool is set only when an update_callback is
\* given; app.py passes update_journal, test.py passes none
save_tool_set == caller = "app"

\* supervisor_node's if / elif chain on each text the provider can answer
DecisionOf == [reply \in RouterReplies |-> supervisor_decision(reply)]

\* supervisor_node, the provider answering with the text reply: next_step is
\* decided and the conditional edge selects the node
supervisor_node(reply) ==
  /\ pc = "supervisor"
  /\ StubGives(llm_input(SUPERVISOR_PROMPT, state), FALSE, AIMessage(reply, <<>>))
  /\ llm_calls' = Append(llm_calls, llm_call(llm_input(SUPERVISOR_PROMPT, state),
                                            FALSE, AIMessage(reply, <<>>)))
  /\ response' = reply
  /\ state' = [state EXCEPT !.next_step = DecisionOf[reply]]
  /\ pc' = conditional_edge(state'.next_step)
  /\ trace' = Append(trace, "router")
  /\ UNCHANGED <<caller, calls_issued, unbound_calls, messages, journal_db, turns, prompt, pre_messages,
                 pre_journal, outcome, toasts, earlier_runs>>

\* supervisor_node, llm.invoke raising
supervisor_raises ==
  /\ pc = "supervisor"
  /\ StubReplies(llm_input(SUPERVISOR_PROMPT, state), FALSE) = {}
  /\ trace' = Append(trace, "router")
  /\ Raise("provider_error")
  /\ llm_calls' = <<>>
  /\ earlier_runs' = <<>>
  /\ UNCHANGED <<caller, calls_issued, unbound_calls, journal_db, turns, prompt, pre_messages, pre_journal,
                 toasts>>

\* what a node's return value {"messages": out, "next_step": "END"} makes of
\* the graph state: messages is reduced with operator.add
node_return(st, out) ==
  [messages |-> st.messages \o out, next_step |-> "END"]

\* strategist_node / healer_node / starter_node: llm.invoke without tools,
\* the reply returned as it came
plain_node(node, PROMPT, reply) ==
  /\ pc = node
  /\ StubGives(llm_input(PROMPT, state), FALSE, reply)
  /\ llm_calls' = Append(llm_calls, llm_call(llm_input(PROMPT, state), FALSE, reply))
  /\ state' = node_return(state, <<reply>>)
  /\ pc' = "END"
  /\ trace' = Append(trace, node)
  /\ response' = <<>>
  /\ calls_issued' = calls_issued + Len(reply.tool_calls)
  /\ unbound_calls' = (unbound_calls \/ reply.tool_calls # <<>>)
  /\ UNCHANGED <<caller, messages, journal_db, turns, prompt, pre_messages,
                 pre_journal, outcome, toasts, earlier_runs>>

strategist_node(reply) == plain_node("strategist", STRATEGIST_PROMPT, reply)

healer_node(reply) == plain_node("healer", HEALER_PROMPT, reply)

starter_node(reply) == plain_node("starter", STARTER_PROMPT, reply)

\* a persona node's llm.invoke raising (before any tool is run)
persona_raises ==
  /\ pc \in PersonaNodes
  /\ StubReplies(llm_input(NODE_PROMPT[pc], state),
                 pc = "architect" /\ save_tool_set) = {}
  /\ trace' = Append(trace, pc)
  /\ Raise("provider_error")
  /\ llm_calls' = <<>>
  /\ earlier_runs' = <<>>
  /\ UNCHANGED <<caller, calls_issued, unbound_calls, journal_db, turns, prompt, pre_messages, pre_journal,
                 toasts>>

\* architect_node 149-159 once the reply is there and every tool call
\* returns: [messages: the node's output list, db: the journal afterwards]
architect_output(reply, db, now) ==
  IF has_tool_calls(reply)
    THEN LET r == run_tool_calls(reply.tool_calls, 1, now,
                                 [db |-> db, tool_messages |-> <<>>])
         IN  [messages |-> <<reply>> \o r.tool_messages, db |-> r.db]
    ELSE [messages |-> <<reply>>, db |-> db]

\* events of one architect execution
architect_trace(n) ==
  <<"architect">> \o [i \in 1..n |-> "tool"]

\* architect_node returning: no tool call in the reply, or save_tool set and
\* every call executed
architect_node(reply) ==
  /\ pc = "architect"
  /\ has_tool_calls(reply) => save_tool_set
  /\ StubGives(llm_input(ARCHITECT_PROMPT, state), save_tool_set, reply)
  /\ llm_calls' = Append(llm_calls, llm_call(llm_input(ARCHITECT_PROMPT, state),
                                            save_tool_set, reply))
  /\ LET out == architect_output(reply, journal_db, datetime_now)
     IN  /\ journal_db' = out.db
         /\ state' = node_return(state, out.messages)
  /\ pc' = "END"
  /\ trace' = trace \o architect_trace(Len(reply.tool_calls))
  /\ response' = <<>>
  /\ calls_issued' = calls_issued + Len(reply.tool_calls)
  /\ UNCHANGED <<caller, unbound_calls, messages, turns, prompt, pre_messages, pre_journal,
                 outcome, toasts, earlier_runs>>

\* architect_node with tool calls in the reply and save_tool = None:
\* save_tool.invoke raises AttributeError
architect_no_tool(reply) ==
  /\ pc = "architect"
  /\ has_tool_calls(reply) /\ ~save_tool_set
  /\ StubGives(llm_input(ARCHITECT_PROMPT, state), save_tool_set, reply)
  /\ trace' = Append(trace, "architect")
  /\ Raise("tool_error")
  /\ llm_calls' = <<>>
  /\ earlier_runs' = <<>>
  /\ calls_issued' = calls_issued + Len(reply.tool_calls)
  /\ unbound_calls' = TRUE
  /\ UNCHANGED <<caller, journal_db, turns, prompt, pre_messages, pre_journal,
                 toasts>>

\* architect_node with update_callback raising in the k-th tool call: the
\* rows of the calls before it are in the journal, the node returns nothing
architect_persist_raises(reply, k) ==
  /\ pc = "architect"
  /\ has_tool_calls(reply) /\ save_tool_set
  /\ k \in 1..Len(reply.tool_calls)
  /\ StubGives(llm_input(ARCHITECT_PROMPT, state), save_tool_set, reply)
  /\ llm_calls' = <<>>
  /\ earlier_runs' = <<>>
  /\ journal_db' = run_tool_calls(SubSeq(reply.tool_calls, 1, k - 1), 1, datetime_now,
                                  [db |-> journal_db, tool_messages |-> <<>>]).db
  /\ trace' = trace \o architect_trace(k)
  /\ Raise("persist_error")
  /\ calls_issued' = calls_issued + Len(reply.tool_calls)
  /\ UNCHANGED <<caller, unbound_calls, turns, prompt, pre_messages, pre_journal, toasts>>

(* ------------------------ the callers, after invoke ------------------- *)

\* app.py 216-224 over tool_calls[i..]: a toast per known tool name;
\* st.rerun() after set_full_plan ends the script run
RECURSIVE tool_toasts(_, _)
tool_toasts(tool_calls, i) ==
  IF i > Len(tool_calls) THEN <<>>
  ELSE IF tool_calls[i].name = "save_journal_entry"
    THEN <<"save_journal_entry">> \o tool_toasts(tool_calls, i + 1)
  ELSE IF tool_calls[i].name = "set_full_plan"
    THEN <<"set_full_plan">>
  ELSE tool_toasts(tool_calls, i + 1)

\* mutant: the reply of the persona's provider call is taken as the response
last_message_reply(result) == result.messages[Len(messages) + 1]

\* result["messages"][-1]
last_message(result) == result.messages[Len(result.messages)]

\* app.py 209-224: the last message of the result is appended and shown
AppReturn ==
  /\ caller = "app" /\ pc = "END"
  /\ LET resp == last_message(state)
     IN  /\ messages' = Append(messages, resp)
         /\ toasts' = IF has_tool_calls(resp)
                        THEN tool_toasts(resp.tool_calls, 1) ELSE <<>>
  /\ outcome' = "ok"
  /\ pc' = "idle"
  /\ state' = NO_STATE
  /\ llm_calls' = <<>>
  /\ earlier_runs' = <<>>
  /\ UNCHANGED <<caller, calls_issued, unbound_calls, journal_db, response, turns, prompt, pre_messages,
                 pre_journal, trace>>

\* test.py 68-78
TerminalReturn ==
  /\ caller = "terminal" /\ pc = "END"
  /\ LET resp == last_message(state)
     IN  /\ messages' = Append(messages, resp)
         /\ toasts' = IF has_tool_calls(resp) THEN <<"tools executed">> ELSE <<>>
  /\ outcome' = "ok"
  /\ pc' = "idle"
  /\ state' = NO_STATE
  /\ llm_calls' = <<>>
  /\ earlier_runs' = <<>>
  /\ UNCHANGED <<caller, calls_issued, unbound_calls, journal_db, response, turns, prompt, pre_messages,
                 pre_journal, trace>>

\* app.py 80-83 and 145-173: the debug button deletes the history and the
\* rerun starts it again from a greeting
ClearConversation ==
  /\ caller = "app" /\ pc = "idle"
  /\ messages # <<GREETING>>
  /\ messages' = <<GREETING>>
  /\ outcome' = "cleared"
  /\ prompt' = <<>>
  /\ pre_messages' = <<>>
  /\ pre_journal' = <<>>
  /\ trace' = <<>>
  /\ toasts' = <<>>
  /\ UNCHANGED <<caller, calls_issued, unbound_calls, journal_db, pc, state, response, turns,
                 llm_calls, earlier_runs>>

(* ---------------------------- specification --------------------------- *)

\* the replies the provider can give with n tool calls left to it
RepliesLeft == [n \in 0..MaxCalls |-> PersonaRepliesUpTo(n)]

\* the replies the provider can still give to a persona call
PersonaReplies == RepliesLeft[MaxCalls - calls_issued]

Next ==
  \/ \E text \in ChatInputs : AppSubmitBlocked(text)
  \/ \E text \in ChatInputs : AppSubmitClean(text)
  \/ \E text \in TerminalInputs : TerminalBlank(text)
  \/ \E text \in TerminalInputs : TerminalQuit(text)
  \/ \E text \in TerminalInputs : TerminalSubmit(text)
  \/ \E reply \in RouterReplies : supervisor_node(reply)
  \/ supervisor_raises
  \/ \E reply \in PersonaReplies : strategist_node(reply)
  \/ \E reply \in PersonaReplies : healer_node(reply)
  \/ \E reply \in PersonaReplies : starter_node(reply)
  \/ persona_raises
  \/ \E reply \in PersonaReplies : architect_node(reply)
  \/ \E reply \in PersonaReplies : architect_no_tool(reply)
  \/ \E reply \in PersonaReplies, k \in 1..MaxCalls : architect_persist_raises(reply, k)
  \/ AppReturn
  \/ TerminalReturn
  \/ ClearConversation

Spec == Init /\ [][Next]_vars

(* ------------------ two runs of the graph on one input ---------------- *)

\* sessions between two turns, each one Spec reaches: a fresh session of
\* either caller; the app after a blocked turn; the app after a turn in
\* which the architect executed a tool call (the history ends with the tool
\* result, the journal holds the row); the terminal after a completed turn
FinalizedSessions ==
  { [caller |-> "app", messages |-> <<GREETING>>, journal_db |-> <<>>,
     turns |-> 0, calls_issued |-> 0],
    [caller |-> "terminal", messages |-> <<GREETING>>, journal_db |-> <<>>,
     turns |-> 0, calls_issued |-> 0],
    [caller |-> "app",
     messages |-> <<GREETING, HumanMessage(<<"U6211", "U60F3", "U6B7B">>),
                    AIMessage(SAFETY_MESSAGE, <<>>)>>,
     journal_db |-> <<>>, turns |-> 1, calls_issued |-> 0],
    [caller |-> "app",
     messages |-> <<GREETING,
                    HumanMessage(<<"I", " ", "d", "i", "d", " ", "i", "t">>),
                    ToolMessage(confirmation("Stuck", 4), 1)>>,
     journal_db |-> update_journal(<<>>, 1, "Stuck", 4, "skipped workout"),
     turns |-> 1, calls_issued |-> 1],
    [caller |-> "terminal",
     messages |-> <<GREETING,
                    HumanMessage(<<"K", "i", "l", "l", " ", "M", "y", "s", "e", "l", "f">>),
                    AIMessage(REPLY_TEXT, <<>>)>>,
     journal_db |-> <<>>, turns |-> 1, calls_issued |-> 0] }

\* the texts with which a caller enters the graph
GraphInputs(c) ==
  IF c = "app"
    THEN {text \in ChatInputs : ~safety_check(text)}
    ELSE {strip(text) : text \in
            {t \in TerminalInputs :
               strip(t) # <<>> /\ lower(strip(t)) \notin QUIT_WORDS}}

\* a turn has just been submitted in one of the sessions: the state that
\* AppSubmitClean / TerminalSubmit leave
PairInit ==
  \E s \in FinalizedSessions :
    \E text \in GraphInputs(s.caller) :
      /\ caller = s.caller
      /\ messages = Append(s.messages, HumanMessage(text))
      /\ journal_db = s.journal_db
      /\ pc = "supervisor"
      /\ state = [messages |-> messages, next_step |-> ""]
      /\ response = <<>>
      /\ turns = s.turns + 1
      /\ calls_issued = s.calls_issued
      /\ unbound_calls = FALSE
      /\ prompt = text
      /\ pre_messages = s.messages
      /\ pre_journal = s.journal_db
      /\ trace = IF s.caller = "app" THEN <<"safety">> ELSE <<>>
      /\ outcome = "running"
      /\ toasts = <<>>
      /\ llm_calls = <<>>
      /\ earlier_runs = <<>>

\* the graph has returned; a second copy of it is invoked on the same
\* {"messages": messages}.  The run just made is kept for comparison, the
\* provider is the same stub (its answers of that run stand, and repeating
\* them draws on no new tool calls), the journal and the clock have moved on.
InvokeAgain ==
  /\ pc = "END"
  /\ earlier_runs = <<>>
  /\ earlier_runs' = <<[calls |-> llm_calls, trace |-> trace, result |-> state]>>
  /\ state' = [messages |-> messages, next_step |-> ""]
  /\ pc' = "supervisor"
  /\ llm_calls' = <<>>
  /\ trace' = IF caller = "app" THEN <<"safety">> ELSE <<>>
  /\ calls_issued' =
       calls_issued - Len(llm_calls[Len(llm_calls)].reply.tool_calls)
  /\ UNCHANGED <<caller, messages, journal_db, response, turns, unbound_calls,
                 prompt, pre_messages, pre_journal, outcome, toasts>>

\* the steps of the graph, and the second invocation
PairNext ==
  \/ \E reply \in RouterReplies : supervisor_node(reply)
  \/ supervisor_raises
  \/ \E reply \in PersonaReplies : strategist_node(reply)
  \/ \E reply \in PersonaReplies : healer_node(reply)
  \/ \E reply \in PersonaReplies : starter_node(reply)
  \/ persona_raises
  \/ \E reply \in PersonaReplies : architect_node(reply)
  \/ \E reply \in PersonaReplies : architect_no_tool(reply)
  \/ \E reply \in PersonaReplies, k \in 1..MaxCalls : architect_persist_raises(reply, k)
  \/ InvokeAgain

PairSpec == PairInit /\ [][PairNext]_vars

(* ======================================================================= *)
(*                                 claims                                  *)
(* ======================================================================= *)

\* the provider calls among the events of a turn
ProviderCalls(t) ==
  {i \in 1..Len(t) : t[i] \in {"router"} \cup PersonaNodes}

\* the tool executions among the events of a turn
ToolRuns(t) ==
  {i \in 1..Len(t) : t[i] = "tool"}

\* a turn has been submitted and no debug reset has wiped its bookkeeping
TurnSubmitted ==
  outcome \in {"blocked", "running", "ok", "provider_error", "persist_error",
               "tool_error"}

\* text holds a listed crisis substring at some position, letter case aside
MentionsCrisis(text) ==
  \E k \in 1..Len(SAFETY_KEYWORDS) :
    \E i \in 0..(Len(text) - Len(SAFETY_KEYWORDS[k])) :
      \A j \in 1..Len(SAFETY_KEYWORDS[k]) :
        lower(<<text[i + j]>>) = <<SAFETY_KEYWORDS[k][j]>>

\* the texts a turn can be submitted with
Prompts ==
  ChatInputs \cup {strip(text) : text \in TerminalInputs}

\* those of them that mention a crisis substring
CrisisPrompts ==
  {text \in Prompts : MentionsCrisis(text)}

\* C1: in the Streamlit app, a turn whose user text contains a listed crisis
\* substring (case-insensitively) ends at once with the history extended by
\* the user's message and exactly the fixed safety message; the provider is
\* never called (no router, no persona), no tool runs, the journal is
\* untouched and no tool notification is shown.
C1_BlockedTurn ==
  (caller = "app" /\ TurnSubmitted /\ prompt \in CrisisPrompts) =>
    /\ outcome = "blocked"
    /\ pc = "idle"
    /\ messages = pre_messages \o
                    <<HumanMessage(prompt), AIMessage(SAFETY_MESSAGE, <<>>)>>
    /\ ProviderCalls(trace) = {}
    /\ ToolRuns(trace) = {}
    /\ journal_db = pre_journal
    /\ toasts = <<>>

\* a blocked turn whose text matches only after case folding ("Kill Myself")
C1_Witness ==
  /\ caller = "app"
  /\ outcome = "blocked"
  /\ prompt = <<"K", "i", "l", "l", " ", "M", "y", "s", "e", "l", "f">>
  /\ Len(messages) = Len(pre_messages) + 2

LABELS == <<STRATEGIST, HEALER, STARTER, ARCHITECT>>

LABEL_NODE == <<"strategist", "healer", "starter", "architect">>

\* the labels, by priority, that the uppercased text contains
LabelsOf ==
  [text \in RouterReplies |-> {p \in 1..4 : Contains(upper(text), LABELS[p])}]

LabelsIn(text) == LabelsOf[text]

\* supervisor_node has just returned: its reply text and next_step are there
Routed ==
  pc \in PersonaNodes

\* C4: the router's decision is always one of the four personas, the node
\* entered is the one decided, and a reply that after uppercasing contains
\* none of the four label names is decided as healer (Companion).
C4_RouterTotal ==
  Routed =>
    /\ state.next_step \in {"strategist", "healer", "starter", "architect"}
    /\ pc = state.next_step
    /\ (LabelsIn(response) = {} => state.next_step = "healer")

\* the reply "ok ok " names no label and was routed to healer
C4_Witness ==
  /\ Routed
  /\ response = <<"o", "k", " ", "o", "k", " ">>
  /\ state.next_step = "healer"

\* C5: when the reply contains label names, the decision is the contained
\* label that comes first in the order STRATEGIST, HEALER, STARTER,
\* ARCHITECT, wherever the names stand in the text and whatever their case.
C5_RouterPriority ==
  (Routed /\ LabelsIn(response) # {}) =>
    state.next_step =
      LABEL_NODE[CHOOSE p \in LabelsIn(response) :
                   \A q \in LabelsIn(response) : p <= q]

\* "STARTERStrategist": the lower-priority label stands first in the text,
\* the higher-priority one is in mixed case, and strategist was decided
C5_Witness ==
  /\ Routed
  /\ response = <<"S", "T", "A", "R", "T", "E", "R">> \o
                <<"S", "t", "r", "a", "t", "e", "g", "i", "s", "t">>
  /\ state.next_step = "strategist"

\* the turn ran to its end: the caller appended the response
TurnCompleted ==
  pc = "idle" /\ outcome = "ok"

\* in history h, the assistant message at i carrying tool calls is followed
\* by their tool results, one per call, ids matching, in call order
ResultsFollow(h, i) ==
  \A j \in 1..Len(h[i].tool_calls) :
    /\ i + j <= Len(h)
    /\ h[i + j].type = "tool"
    /\ h[i + j].tool_call_id = h[i].tool_calls[j].id

\* in history h, the tool result at i belongs to the run of results that
\* follows an assistant message carrying its tool call
CallPrecedes(h, i) ==
  \E a \in 1..(i - 1) :
    /\ h[a].type = "ai"
    /\ i - a <= Len(h[a].tool_calls)
    /\ h[a].tool_calls[i - a].id = h[i].tool_call_id
    /\ \A m \in (a + 1)..i : h[m].type = "tool"

\* C2 as claimed: after any completed turn, every assistant message of the
\* session history that carries tool calls is immediately followed by its
\* tool results (one per call, matching id, call order), and every tool
\* result follows its tool call.  Stated for the sessions in which the
\* provider attached tool calls only where tools were bound.
C2_Claimed ==
  (TurnCompleted /\ ~unbound_calls) =>
    \A i \in 1..Len(messages) :
      /\ (messages[i].type = "ai" /\ messages[i].tool_calls # <<>>)
           => ResultsFollow(messages, i)
      /\ messages[i].type = "tool" => CallPrecedes(messages, i)

\* the persona node that ran in this turn, "" while none has
TurnPersona ==
  IF \E i \in 1..Len(trace) : trace[i] \in PersonaNodes
    THEN trace[CHOOSE i \in 1..Len(trace) : trace[i] \in PersonaNodes]
    ELSE ""

\* the messages the persona node added to the graph state (pc = "END")
NodeOutput ==
  SubSeq(state.messages, Len(messages) + 1, Len(state.messages))

\* C3 as claimed: in a turn routed to strategist, healer or starter no tool
\* is executed and the node produces no assistant message with a non-empty
\* tool call list, whatever the provider replies.
C3_Claimed ==
  (pc = "END" /\ TurnPersona \in {"strategist", "healer", "starter"}) =>
    /\ ToolRuns(trace) = {}
    /\ journal_db = pre_journal
    /\ \A i \in 1..Len(NodeOutput) : NodeOutput[i].tool_calls = <<>>

\* C6 as claimed: at the end of a turn the caller's tool notification names
\* save_journal_entry when that tool was executed in the turn, and there is
\* no tool notification when no tool was executed.  Stated for the sessions
\* in which the provider attached tool calls only where tools were bound.
C6_Claimed ==
  (TurnCompleted /\ ~unbound_calls) =>
    /\ ToolRuns(trace) # {} =>
         \E i \in 1..Len(toasts) : toasts[i] = "save_journal_entry"
    /\ ToolRuns(trace) = {} => toasts = <<>>

\* C7: when architect_node returns with a reply that carries n tool calls,
\* the journal has grown by exactly n rows, row i holding the mood, energy
\* and note of call i, and the node's output is the reply followed by n tool
\* results, result i carrying the confirmation string of call i and its id.
C7_JournalAppend ==
  (pc = "END" /\ TurnPersona = "architect" /\ has_tool_calls(NodeOutput[1])) =>
    LET calls == NodeOutput[1].tool_calls
        n == Len(calls)
        base == Len(pre_journal)
    IN  /\ Len(journal_db) = base + n
        /\ SubSeq(journal_db, 1, base) = pre_journal
        /\ Cardinality(ToolRuns(trace)) = n
        /\ Len(NodeOutput) = 1 + n
        /\ \A i \in 1..n :
             /\ journal_db[base + i].Mood = calls[i].args.mood
             /\ journal_db[base + i].Energy = calls[i].args.energy
             /\ journal_db[base + i].Note = calls[i].args.note
             /\ NodeOutput[1 + i].type = "tool"
             /\ NodeOutput[1 + i].tool_call_id = calls[i].id
             /\ NodeOutput[1 + i].content =
                  <<"recorded: Mood=", calls[i].args.mood, ", Energy=",
                    ToString(calls[i].args.energy)>>

\* the architect returned from a reply with two record-session calls of
\* different arguments, the first being (Stuck, 4, skipped workout)
C7_Witness ==
  /\ pc = "END" /\ TurnPersona = "architect"
  /\ Len(NodeOutput) = 3
  /\ Len(NodeOutput[1].tool_calls) = 2
  /\ \A i \in 1..2 : NodeOutput[1].tool_calls[i].name = "save_journal_entry"
  /\ NodeOutput[1].tool_calls[1].args =
       [mood |-> "Stuck", energy |-> 4, note |-> "skipped workout"]
  /\ NodeOutput[1].tool_calls[2].args.mood = "Flowing"
  /\ Len(journal_db) = Len(pre_journal) + 2

\* C8 as claimed: whoever the caller is, the provider is called in a turn
\* (and the graph is entered) only after the safety gate has inspected that
\* turn's text and found no listed substring in it.
C8_Claimed ==
  (pc \in {"supervisor", "END"} \cup PersonaNodes \/ ProviderCalls(trace) # {}) =>
    /\ trace # <<>>
    /\ trace[1] = "safety"
    /\ prompt \notin CrisisPrompts

\* the events of a turn without the gate's
GraphEvents ==
  IF trace # <<>> /\ trace[1] = "safety" THEN Tail(trace) ELSE trace

\* a turn was aborted by an exception
TurnAborted ==
  outcome \in {"provider_error", "persist_error", "tool_error"}

\* C9 as claimed: a turn's events are one router call, then one persona
\* call, then tool executions, in that order and never again; a completed
\* non-blocked turn has exactly one router call and one persona call; and a
\* turn fails to reach the terminal state only when a provider or
\* persistence call has failed.
C9_Claimed ==
  /\ \A i \in 1..Len(GraphEvents) :
       /\ i = 1 => GraphEvents[i] = "router"
       /\ i = 2 => GraphEvents[i] \in PersonaNodes
       /\ i > 2 => GraphEvents[i] = "tool"
  /\ TurnCompleted => Len(GraphEvents) >= 2
  /\ TurnAborted => outcome \in {"provider_error", "persist_error"}

\* C10 as claimed: after a provider failure the history is the history
\* before the turn plus the user's message: nothing of the failed turn is
\* added and the user's message remains.
C10_Claimed ==
  outcome = "provider_error" =>
    messages = Append(pre_messages, HumanMessage(prompt))

\* submitting the text of the failed turn again
Resubmit ==
  \/ AppSubmitClean(prompt)
  \/ TerminalSubmit(prompt)

\* C10, amended: after a provider failure the turn is over, no assistant or
\* tool-result message of it is in the history and the journal is as before
\* the turn; in the Streamlit app the user's message remains at the end of
\* the history, in the terminal loop it is removed again (the history is the
\* one before the turn); in both the same text can be submitted again and
\* enters the graph as a new turn.
C10_ProviderFailure ==
  outcome = "provider_error" =>
    /\ pc = "idle"
    /\ journal_db = pre_journal
    /\ caller = "app" => messages = Append(pre_messages, HumanMessage(prompt))
    /\ caller = "terminal" => messages = pre_messages
    /\ turns < MaxTurns => ENABLED Resubmit

\* the terminal loop after a persona's provider call failed in a second
\* turn: the history is back to what the first turn left
C10_Witness ==
  /\ outcome = "provider_error"
  /\ caller = "terminal"
  /\ Cardinality(ProviderCalls(trace)) = 2
  /\ Len(pre_messages) = 3
  /\ messages = pre_messages

\* C11 as claimed: when the journal append fails during a tool execution,
\* the reply the architect's provider call had already produced is still
\* added to the session history (after the user's message) and shown.
C11_Claimed ==
  outcome = "persist_error" =>
    /\ Len(messages) >= Len(pre_messages) + 2
    /\ messages[Len(pre_messages) + 1] = HumanMessage(prompt)
    /\ messages[Len(pre_messages) + 2].type = "ai"
    /\ messages[Len(pre_messages) + 2].content = REPLY_TEXT

\* the calls of a tool call list that name the record-session tool
RegisteredCalls(calls) ==
  {i \in 1..Len(calls) : calls[i].name = "save_journal_entry"}

\* C12 as claimed: when the architect's reply requests a tool other than
\* save_journal_entry, no handler runs for that call: the journal grows only
\* by the rows of the save_journal_entry calls of the reply.
C12_Claimed ==
  (pc = "END" /\ TurnPersona = "architect" /\ has_tool_calls(NodeOutput[1])) =>
    Len(journal_db) =
      Len(pre_journal) + Cardinality(RegisteredCalls(NodeOutput[1].tool_calls))

\* sequence a is an initial part of sequence b
IsPrefix(a, b) ==
  Len(a) <= Len(b) /\ SubSeq(b, 1, Len(a)) = a

\* C13 as claimed: every step of every caller leaves the history before the
\* step as a prefix of the history after it.
C13_Claimed ==
  [][IsPrefix(messages, messages')]_vars

\* C13, amended: every step extends the session history (the old history is
\* a prefix of the new one) except two: the app's debug button, pressed
\* between turns, replaces the history by a fresh greeting; and the terminal
\* loop, when a running turn ends in an exception, removes the user's
\* message it had appended, giving back the history of before the turn.  In
\* the app no turn, blocked, completed or failed, removes a message.
C13_HistorySteps ==
  [][\/ IsPrefix(messages, messages')
     \/ /\ caller = "app" /\ pc = "idle" /\ pc' = "idle"
        /\ outcome' = "cleared"
        /\ messages' = <<GREETING>>
     \/ /\ caller = "terminal" /\ outcome = "running"
        /\ outcome' \in {"provider_error", "persist_error", "tool_error"}
        /\ messages = Append(pre_messages, HumanMessage(prompt))
        /\ messages' = pre_messages]_vars

\* the app after two turns with a history of three messages: the first
\* turn's messages were cleared by the debug button before the second turn
C13_Witness ==
  /\ caller = "app"
  /\ turns = 2
  /\ outcome = "ok"
  /\ Len(messages) = 3

\* C14 as claimed: every row of the journal has an integer energy score
\* between 1 and 10, whatever arguments the provider put in the tool call.
C14_Claimed ==
  \A i \in 1..Len(journal_db) : journal_db[i].Energy \in 1..10

\* the tool executions a step adds to the events (a step that starts a turn
\* or resets the session starts the events anew)
ToolRunsAdded ==
  IF IsPrefix(trace, trace')
    THEN Cardinality(ToolRuns(trace')) - Cardinality(ToolRuns(trace))
    ELSE Cardinality(ToolRuns(trace'))

\* C15: the journal changes only in a step of architect_node with the save
\* tool set, and only by tool executions: every other step (blocked turn,
\* router call, strategist / healer / starter execution, provider failure,
\* the callers' returns, the debug reset) leaves it as it was; the rows
\* already there stay, unmodified and in place, and each tool execution that
\* returns adds exactly one row at the end (an execution whose append raises
\* adds none).
C15_JournalFrame ==
  [][/\ IsPrefix(journal_db, journal_db')
     /\ journal_db' # journal_db =>
          /\ pc = "architect"
          /\ save_tool_set
          /\ ToolRunsAdded > 0
     /\ Len(journal_db') - Len(journal_db) =
          IF outcome' = "persist_error" /\ outcome = "running"
            THEN ToolRunsAdded - 1
            ELSE ToolRunsAdded]_vars

\* a second architect turn has added a row to the journal behind the row of
\* the first turn
C15_Witness ==
  /\ pc = "END" /\ TurnPersona = "architect"
  /\ Len(pre_journal) = 1
  /\ Len(journal_db) = 2
  /\ journal_db[1] = pre_journal[1]

\* C16: when a further copy of the graph is run on the same session history
\* and user input, the provider being a deterministic stub, it takes the
\* routing decision the earlier run took and returns the message sequence
\* the earlier run returned, although the clock and the journal differ.
C16_Deterministic ==
  \A k \in 1..Len(earlier_runs) :
    /\ Routed =>
         \E i \in 1..Len(earlier_runs[k].trace) :
           earlier_runs[k].trace[i] = state.next_step
    /\ pc = "END" =>
         /\ state.messages = earlier_runs[k].result.messages
         /\ llm_calls = earlier_runs[k].calls

\* a second run has returned after executing a tool call: the journal holds
\* the rows of both runs, stamped at different times
C16_Witness ==
  /\ Len(earlier_runs) = 1
  /\ pc = "END"
  /\ ToolRuns(trace) # {}
  /\ Len(journal_db) = 2
  /\ journal_db[1].Timestamp # journal_db[2].Timestamp
  /\ state.messages[Len(state.messages)].type = "tool"

\* the instruction of the persona the router's reply selects
SelectedPrompt(reply) ==
  CASE DecisionOf[reply.content] = "strategist" -> STRATEGIST_PROMPT
    [] DecisionOf[reply.content] = "healer" -> HEALER_PROMPT
    [] DecisionOf[reply.content] = "starter" -> STARTER_PROMPT
    [] DecisionOf[reply.content] = "architect" -> ARCHITECT_PROMPT

\* the conversation so far, the current turn's user message included
Conversation ==
  Append(pre_messages, HumanMessage(prompt))

\* C17: while the graph runs a turn, the provider has been called once by
\* the router (once routed) and once more by the persona node (once it has
\* returned), never more; the router's call passed the classification
\* instruction followed by the whole conversation so far in append order, up
\* to and including this turn's user message; the persona's call passed the
\* instruction of the persona the router's reply selected, and no other
\* instruction, followed by that same conversation.
C17_ProviderInput ==
  (pc \in PersonaNodes \cup {"END"}) =>
    /\ Len(llm_calls) = IF pc = "END" THEN 2 ELSE 1
    /\ Cardinality(ProviderCalls(trace)) = Len(llm_calls)
    /\ llm_calls[1].input = <<SystemMessage(SUPERVISOR_PROMPT)>> \o Conversation
    /\ pc = "END" =>
         /\ llm_calls[2].input =
              <<SystemMessage(SelectedPrompt(llm_calls[1].reply))>> \o Conversation
         /\ \A i \in 2..Len(llm_calls[2].input) :
              llm_calls[2].input[i].type # "system"

\* a second turn, after one that left a tool result at the end of the
\* history, has been routed to starter and the node has returned: its call
\* passed five messages, the starter instruction first
C17_Witness ==
  /\ pc = "END"
  /\ Len(llm_calls) = 2
  /\ Len(pre_messages) = 3
  /\ pre_messages[3].type = "tool"
  /\ Len(llm_calls[2].input) = 5
  /\ llm_calls[2].input[1] = SystemMessage(STARTER_PROMPT)

\* C18 as claimed: with the brain created without an update callback (the
\* terminal loop), a turn routed to the architect never ends in an error of
\* the tool loop, whatever the provider's reply carries: the only way such a
\* turn is aborted is a failing provider call.
C18_Claimed ==
  (~save_tool_set /\ TurnPersona = "architect" /\ TurnAborted) =>
    outcome = "provider_error"

\* C19: the step in which a caller takes the graph's result (the turn
\* succeeds) leaves the history of before the turn, then the user's message,
\* then one more message, the last one of the result, however many messages
\* the persona node added to it; and the step of a blocked turn leaves the
\* history of before the turn, the user's message and the fixed safety
\* message.
C19_TwoMessages ==
  [][/\ (pc = "END" /\ pc' = "idle" /\ outcome' = "ok") =>
          /\ messages' = pre_messages \o
                           <<HumanMessage(prompt), state.messages[Len(state.messages)]>>
          /\ Len(state.messages) > Len(pre_messages) + 1
     /\ (pc = "idle" /\ outcome' = "blocked" /\ turns' = turns + 1) =>
          messages' = messages \o
                        <<HumanMessage(prompt'), AIMessage(SAFETY_MESSAGE, <<>>)>>]_vars

\* a turn has succeeded in which the architect produced three messages (the
\* reply and two tool results): the history has grown by two, the second
\* being the last tool result
C19_Witness ==
  /\ TurnCompleted
  /\ Cardinality(ToolRuns(trace)) = 2
  /\ Len(messages) = Len(pre_messages) + 2
  /\ messages[Len(messages) - 1] = HumanMessage(prompt)
  /\ messages[Len(messages)].type = "tool"

====
